---- MODULE Spec2Model ----
(***************************************************************************)
(* Model of the newslab-serde codec crates: Fraction (newslab-serde-num),  *)
(* range / optional_range (newslab-serde-common), angle / length           *)
(* (newslab-serde-measurements) and CameraMatrix (newslab-serde-cv).       *)
(*                                                                         *)
(* Texts are sequences of one-character strings, so that formatting and    *)
(* parsing are computed character by character as the code does.  Every    *)
(* codec is a pure call: an action draws the call's input, applies the     *)
(* operation and records <<op, arg, res>>; arg and res are records with   *)
(* one field named after the type of what they hold.  The CameraMatrix     *)
(* value held by a caller is the variable cm.                              *)
(***************************************************************************)
EXTENDS Integers, Sequences, FiniteSets, TLC

VARIABLES op, arg, res, cm

vars == <<op, arg, res, cm>>

(***************************************************************************)
(* Bounds of the model.                                                    *)
(***************************************************************************)
\* width, in bits, of the unsigned integer type that stands for u64
IntBits == 3

(***************************************************************************)
(* Results of a call.                                                      *)
(***************************************************************************)
NoRes == [kind |-> "none"]
Ok(v) == [kind |-> "ok", val |-> v]
Err == [kind |-> "err"]
Panic == [kind |-> "panic"]
NoValue == [kind |-> "novalue"]

IsOk(r) == r.kind = "ok"

\* a caller's variable of type CameraMatrix: empty, or holding a value
Empty == [held |-> FALSE]
Held(m) == [held |-> TRUE, mat |-> m]

(***************************************************************************)
(* Characters and unsigned integers as text.                               *)
(***************************************************************************)
DigitChars == <<"0", "1", "2", "3", "4", "5", "6", "7", "8", "9">>

IsDigit(c) == \E i \in 1..10 : DigitChars[i] = c

DigitVal(c) == (CHOOSE i \in 1..10 : DigitChars[i] = c) - 1

RECURSIVE Pow(_, _)
Pow(b, n) == IF n = 0 THEN 1 ELSE b * Pow(b, n - 1)

\* u64::MAX at the model's width
U64Max == Pow(2, IntBits) - 1

\* core::fmt::Display for an unsigned integer: decimal digits, no sign, no padding
RECURSIVE FmtUInt(_)
FmtUInt(n) ==
    IF n < 10 THEN <<DigitChars[n + 1]>>
    ELSE FmtUInt(n \div 10) \o <<DigitChars[(n % 10) + 1]>>

\* the digit loop of u64::from_str: every character a digit, checked accumulation
RECURSIVE ParseDigits(_, _)
ParseDigits(s, acc) ==
    IF s = <<>> THEN Ok(acc)
    ELSE IF ~IsDigit(Head(s)) THEN Err
    ELSE IF acc * 10 + DigitVal(Head(s)) > U64Max THEN Err
    ELSE ParseDigits(Tail(s), acc * 10 + DigitVal(Head(s)))

\* <u64 as FromStr>::from_str: empty is an error, one leading '+' is accepted,
\* a lone sign is an error, '-' is not a sign of an unsigned type
ParseU64(s) ==
    IF s = <<>> THEN Err
    ELSE IF Len(s) = 1 /\ Head(s) \in {"+", "-"} THEN Err
    ELSE IF Head(s) = "+" THEN ParseDigits(Tail(s), 0)
    ELSE ParseDigits(s, 0)

\* <NonZeroU64 as FromStr>::from_str: the u64 parse, then zero is an error
ParseNonZeroU64(s) ==
    LET r == ParseU64(s)
    IN  IF IsOk(r) /\ r.val = 0 THEN Err ELSE r

\* str::strip_prefix / str::strip_suffix: Ok(rest) or Err for None
StripPrefix(s, p) ==
    IF Len(s) >= Len(p) /\ SubSeq(s, 1, Len(p)) = p
    THEN Ok(SubSeq(s, Len(p) + 1, Len(s)))
    ELSE Err

StripSuffix(s, p) ==
    IF Len(s) >= Len(p) /\ SubSeq(s, Len(s) - Len(p) + 1, Len(s)) = p
    THEN Ok(SubSeq(s, 1, Len(s) - Len(p)))
    ELSE Err

\* str::split(ch): the pieces between the separators, at least one piece
RECURSIVE SplitFrom(_, _, _)
SplitFrom(s, sep, cur) ==
    IF s = <<>> THEN <<cur>>
    ELSE IF Head(s) = sep THEN <<cur>> \o SplitFrom(Tail(s), sep, <<>>)
    ELSE SplitFrom(Tail(s), sep, Append(cur, Head(s)))

Split(s, sep) == SplitFrom(s, sep, <<>>)

(***************************************************************************)
(* newslab-serde-num: Fraction.                                            *)
(***************************************************************************)
Fraction(neg, n, d) == [is_negative |-> neg, num |-> n, deno |-> d]

\* every value of the type: deno is a NonZeroU64
Fractions ==
    {Fraction(neg, n, d) : neg \in BOOLEAN, n \in 0..U64Max, d \in 1..U64Max}

\* impl Display for Fraction (and Serialize, which emits the same string)
FractionDisplay(v) ==
    (IF v.is_negative THEN <<"-">> ELSE <<>>)
        \o FmtUInt(v.num) \o <<"/">> \o FmtUInt(v.deno)

\* the sign match at the head of Fraction::from_str
FromStrSign(text) ==
    LET stripped == StripPrefix(text, <<"-">>)
    IN  IF IsOk(stripped)
        THEN [is_negative |-> FALSE, text |-> stripped.val]
        ELSE [is_negative |-> TRUE, text |-> text]

\* impl FromStr for Fraction (and Deserialize, which parses the string)
FractionFromStr(text) ==
    LET sg == FromStrSign(text)
        tokens == Split(sg.text, "/")
        num == ParseU64(tokens[1])
        deno == IF Len(tokens) >= 2 THEN ParseNonZeroU64(tokens[2]) ELSE Err
    IN  IF ~IsOk(num) THEN Err
        ELSE IF ~IsOk(deno) THEN Err
        ELSE IF Len(tokens) >= 3 THEN Err
        ELSE Ok(Fraction(sg.is_negative, num.val, deno.val))

\* the wrapping product of two u64 (release build)
WrappingMul(x, y) == (x * y) % (U64Max + 1)

Ordering(l, r) == IF l < r THEN "Less" ELSE IF l > r THEN "Greater" ELSE "Equal"

Reverse(o) == IF o = "Less" THEN "Greater" ELSE IF o = "Greater" THEN "Less" ELSE o

\* the outcomes of `x * y` on u64: the exact product when it fits; otherwise a
\* panic (overflow checks on) or the product modulo 2^w (overflow checks off)
MulOutcomes(x, y) ==
    IF x * y <= U64Max THEN {Ok(x * y)} ELSE {Panic, Ok(WrappingMul(x, y))}

\* cmp without the reversal for two negative values
FractionCmpNoReverse(a, b) ==
    IF a.is_negative /\ ~b.is_negative THEN {Ok("Less")}
    ELSE IF ~a.is_negative /\ b.is_negative THEN {Ok("Greater")}
    ELSE {IF lhs.kind = "panic" \/ rhs.kind = "panic" THEN Panic
          ELSE Ok(Ordering(lhs.val, rhs.val)) :
             lhs \in MulOutcomes(a.num, b.deno), rhs \in MulOutcomes(b.num, a.deno)}

\* impl Ord for Fraction: cmp
FractionCmp(a, b) ==
    IF a.is_negative /\ ~b.is_negative THEN {Ok("Less")}
    ELSE IF ~a.is_negative /\ b.is_negative THEN {Ok("Greater")}
    ELSE LET reverse == a.is_negative /\ b.is_negative
         IN  {IF lhs.kind = "panic" \/ rhs.kind = "panic" THEN Panic
              ELSE Ok(IF reverse THEN Reverse(Ordering(lhs.val, rhs.val))
                      ELSE Ordering(lhs.val, rhs.val)) :
                 lhs \in MulOutcomes(a.num, b.deno), rhs \in MulOutcomes(b.num, a.deno)}

\* impl PartialOrd for Fraction: partial_cmp, the same steps wrapped in Some
FractionPartialCmp(a, b) ==
    IF a.is_negative /\ ~b.is_negative THEN {Ok("Less")}
    ELSE IF ~a.is_negative /\ b.is_negative THEN {Ok("Greater")}
    ELSE LET reverse == a.is_negative /\ b.is_negative
         IN  {IF lhs.kind = "panic" \/ rhs.kind = "panic" THEN Panic
              ELSE Ok(IF reverse THEN Reverse(Ordering(lhs.val, rhs.val))
                      ELSE Ordering(lhs.val, rhs.val)) :
                 lhs \in MulOutcomes(a.num, b.deno), rhs \in MulOutcomes(b.num, a.deno)}

\* the mathematical order of two fractions: sign first, then exact cross products
ExactOrdering(a, b) ==
    IF a.is_negative /\ ~b.is_negative THEN "Less"
    ELSE IF ~a.is_negative /\ b.is_negative THEN "Greater"
    ELSE IF a.is_negative THEN Reverse(Ordering(a.num * b.deno, b.num * a.deno))
    ELSE Ordering(a.num * b.deno, b.num * a.deno)

\* texts handed to the Fraction decoder: every formatted value
FractionTexts == {FractionDisplay(v) : v \in Fractions}

FractionInit ==
    /\ op = "none"
    /\ arg = NoValue
    /\ res = NoRes
    /\ cm = Empty

\* Fraction::serialize / to_string
FractionSerialize ==
    /\ op = "none"
    /\ \E v \in Fractions :
          /\ op' = "Fraction::serialize"
          /\ arg' = [frac |-> v]
          /\ res' = [text |-> Ok(FractionDisplay(v))]
    /\ UNCHANGED cm

\* Fraction::deserialize / str::parse
FractionDeserialize ==
    /\ op = "none"
    /\ \E text \in FractionTexts :
          /\ op' = "Fraction::deserialize"
          /\ arg' = [text |-> text]
          /\ res' = [frac |-> FractionFromStr(text)]
    /\ UNCHANGED cm

\* a.cmp(&b)
FractionCmpCall ==
    /\ op = "none"
    /\ \E a \in Fractions, b \in Fractions :
          /\ op' = "Fraction::cmp"
          /\ arg' = [pair |-> <<a, b>>]
          /\ res' \in {[ord |-> r] : r \in FractionCmp(a, b)}
    /\ UNCHANGED cm

\* a.partial_cmp(&b)
FractionPartialCmpCall ==
    /\ op = "none"
    /\ \E a \in Fractions, b \in Fractions :
          /\ op' = "Fraction::partial_cmp"
          /\ arg' = [pair |-> <<a, b>>]
          /\ res' \in {[ord |-> r] : r \in FractionPartialCmp(a, b)}
    /\ UNCHANGED cm

FractionNext ==
    \/ FractionSerialize
    \/ FractionDeserialize
    \/ FractionCmpCall
    \/ FractionPartialCmpCall

SpecFraction == FractionInit /\ [][FractionNext]_vars

\* C1: every Fraction survives the text round trip: parsing the text that
\* formatting v produced succeeds and yields v, sign flag included.
C1_FractionRoundTrip ==
    \A v \in Fractions :
        (op = "Fraction::deserialize" /\ arg.text = FractionDisplay(v)) => res.frac = Ok(v)

\* C5: cmp and partial_cmp return the ordering of the exact cross products:
\* no product is truncated modulo 2^w and no comparison aborts.
C5_CmpExact ==
    op \in {"Fraction::cmp", "Fraction::partial_cmp"}
        => res.ord = Ok(ExactOrdering(arg.pair[1], arg.pair[2]))

(***************************************************************************)
(* newslab-serde-common: range and optional_range.                         *)
(***************************************************************************)
\* largest scalar drawn for a bound of an interval (the type T)
MaxScalar == 1

Scalars == 0..MaxScalar

None == [some |-> FALSE]
Some(x) == [some |-> TRUE, val |-> x]
Options == {None} \cup {Some(x) : x \in Scalars}

\* std::ops::Bound<T>
Unbounded == [bound |-> "Unbounded"]
Included(x) == [bound |-> "Included", val |-> x]
Excluded(x) == [bound |-> "Excluded", val |-> x]
Bounds == {Unbounded} \cup {Included(x) : x \in Scalars} \cup {Excluded(x) : x \in Scalars}

\* (Bound<T>, Bound<T>)
Intervals == Bounds \X Bounds

\* one key of the map on the wire: missing, null, or holding a scalar
Absent == [slot |-> "absent"]
Null == [slot |-> "null"]
Val(x) == [slot |-> "value", val |-> x]
WireSlots == {Absent, Null} \cup {Val(x) : x \in Scalars}

IsSet(w) == w.slot = "value"

\* the map on the wire, keys ">", ">=", "<", "<="
WireMaps == [gt : WireSlots, ge : WireSlots, lt : WireSlots, le : WireSlots]

\* the whole structure missing (null) on the wire
NullStruct == [struct |-> "null"]

\* struct SerializedBound<T> { min, imin, max, imax }
SerializedBound(min, imin, max, imax) ==
    [min |-> min, imin |-> imin, max |-> max, imax |-> imax]

\* derived Deserialize of an Option<T> field: a missing or null key is None
FieldFromWire(w) == IF IsSet(w) THEN Some(w.val) ELSE None

\* derived Serialize of an Option<T> field: None is written as null
FieldToWire(o) == IF o.some THEN Val(o.val) ELSE Null

\* #[derive(Deserialize)] for SerializedBound, renamed keys
SerializedBoundDeserialize(w) ==
    SerializedBound(FieldFromWire(w.gt), FieldFromWire(w.ge),
                    FieldFromWire(w.lt), FieldFromWire(w.le))

\* #[derive(Serialize)] for SerializedBound, renamed keys
SerializedBoundSerialize(sb) ==
    [gt |-> FieldToWire(sb.min), ge |-> FieldToWire(sb.imin),
     lt |-> FieldToWire(sb.max), le |-> FieldToWire(sb.imax)]

\* unpack with the two slots exchanged
UnpackSwapped(bound) ==
    IF bound.bound = "Unbounded" THEN <<None, None>>
    ELSE IF bound.bound = "Included" THEN <<Some(bound.val), None>>
    ELSE <<None, Some(bound.val)>>

\* fn unpack: (exclusive slot, inclusive slot)
Unpack(bound) ==
    IF bound.bound = "Unbounded" THEN <<None, None>>
    ELSE IF bound.bound = "Included" THEN <<None, Some(bound.val)>>
    ELSE <<Some(bound.val), None>>

\* pack that takes the exclusive slot when both slots are given
PackPreferExclusive(bound, ibound) ==
    IF ~bound.some /\ ~ibound.some THEN Ok(Unbounded)
    ELSE IF bound.some THEN Ok(Excluded(bound.val))
    ELSE Ok(Included(ibound.val))

\* fn pack: Ok(bound), or Err for None when both slots are given
Pack(bound, ibound) ==
    IF ~bound.some /\ ~ibound.some THEN Ok(Unbounded)
    ELSE IF bound.some /\ ~ibound.some THEN Ok(Excluded(bound.val))
    ELSE IF ~bound.some /\ ibound.some THEN Ok(Included(ibound.val))
    ELSE Err

\* SerializedBound::from_bound
FromBound(interval) ==
    LET lo == Unpack(interval[1])
        up == Unpack(interval[2])
    IN  SerializedBound(lo[1], lo[2], up[1], up[2])

\* SerializedBound::into_bound
IntoBound(sb) ==
    LET lower == Pack(sb.min, sb.imin)
        upper == Pack(sb.max, sb.imax)
    IN  IF ~IsOk(lower) THEN Err
        ELSE IF ~IsOk(upper) THEN Err
        ELSE Ok(<<lower.val, upper.val>>)

\* range::serialize
RangeSerialize(interval) == Ok(SerializedBoundSerialize(FromBound(interval)))

\* range::deserialize
RangeDeserialize(wire) == IntoBound(SerializedBoundDeserialize(wire))

\* optional_range::serialize: None is written as null
OptionalRangeSerialize(opt) ==
    IF opt.some THEN Ok(SerializedBoundSerialize(FromBound(opt.val))) ELSE Ok(NullStruct)

\* optional_range::deserialize: map into_bound over the option, then transpose
OptionalRangeDeserialize(wire) ==
    IF wire = NullStruct THEN Ok(None)
    ELSE LET r == IntoBound(SerializedBoundDeserialize(wire))
         IN  IF IsOk(r) THEN Ok(Some(r.val)) ELSE Err

RangeInit ==
    /\ op = "none"
    /\ arg = NoValue
    /\ res = NoRes
    /\ cm = Empty

RangeSerializeCall ==
    /\ op = "none"
    /\ \E interval \in Intervals :
          /\ op' = "range::serialize"
          /\ arg' = [interval |-> interval]
          /\ res' = [wire |-> RangeSerialize(interval)]
    /\ UNCHANGED cm

RangeDeserializeCall ==
    /\ op = "none"
    /\ \E wire \in WireMaps :
          /\ op' = "range::deserialize"
          /\ arg' = [wire |-> wire]
          /\ res' = [interval |-> RangeDeserialize(wire)]
    /\ UNCHANGED cm

OptionalRangeSerializeCall ==
    /\ op = "none"
    /\ \E opt \in {None} \cup {Some(i) : i \in Intervals} :
          /\ op' = "optional_range::serialize"
          /\ arg' = [opt |-> opt]
          /\ res' = [wire |-> OptionalRangeSerialize(opt)]
    /\ UNCHANGED cm

OptionalRangeDeserializeCall ==
    /\ op = "none"
    /\ \E wire \in WireMaps \cup {NullStruct} :
          /\ op' = "optional_range::deserialize"
          /\ arg' = [wire |-> wire]
          /\ res' = [opt |-> OptionalRangeDeserialize(wire)]
    /\ UNCHANGED cm

RangeNext ==
    \/ RangeSerializeCall
    \/ RangeDeserializeCall
    \/ OptionalRangeSerializeCall
    \/ OptionalRangeDeserializeCall

SpecRange == RangeInit /\ [][RangeNext]_vars

\* both slots of one side hold a value
Conflict(wire) == (IsSet(wire.gt) /\ IsSet(wire.ge)) \/ (IsSet(wire.lt) /\ IsSet(wire.le))

\* C3: range::deserialize fails exactly when ">" and ">=" are both given or
\* "<" and "<=" are both given, whatever the other side holds; the same for
\* optional_range::deserialize on a present structure, and an absent
\* structure decodes to no interval.
C3_ConflictRejected ==
    /\ op = "range::deserialize" => (res.interval = Err <=> Conflict(arg.wire))
    /\ (op = "optional_range::deserialize" /\ arg.wire # NullStruct)
          => (res.opt = Err <=> Conflict(arg.wire))
    /\ (op = "optional_range::deserialize" /\ arg.wire = NullStruct) => res.opt = Ok(None)

\* a conflicting lower pair beside a well-formed upper side has been rejected
C3_Witness ==
    /\ op = "range::deserialize"
    /\ arg.wire = [gt |-> Val(1), ge |-> Val(1), lt |-> Absent, le |-> Val(0)]
    /\ res.interval = Err

\* the slots a bound must occupy: <<exclusive, inclusive>>
ExpectedSlots(bound) ==
    IF bound.bound = "Unbounded" THEN <<Null, Null>>
    ELSE IF bound.bound = "Excluded" THEN <<Val(bound.val), Null>>
    ELSE <<Null, Val(bound.val)>>

NoSlotMaps == [gt : {Absent, Null}, ge : {Absent, Null}, lt : {Absent, Null}, le : {Absent, Null}]

\* C4: encode never fails and sets no slot for Unbounded, only the exclusive
\* slot for Excluded and only the inclusive slot for Included; decoding what
\* encode wrote gives the interval back; a map with no slot set decodes to
\* (Unbounded, Unbounded).
C4_IntervalRoundTrip ==
    /\ op = "range::serialize" =>
          /\ IsOk(res.wire)
          /\ <<res.wire.val.gt, res.wire.val.ge>> = ExpectedSlots(arg.interval[1])
          /\ <<res.wire.val.lt, res.wire.val.le>> = ExpectedSlots(arg.interval[2])
    /\ \A i \in Intervals :
          (op = "range::deserialize" /\ Ok(arg.wire) = RangeSerialize(i))
              => res.interval = Ok(i)
    /\ (op = "range::deserialize" /\ arg.wire \in NoSlotMaps)
          => res.interval = Ok(<<Unbounded, Unbounded>>)

\* the encoding of (Excluded(0), Included(1)) has been decoded
C4_Witness ==
    /\ op = "range::deserialize"
    /\ Ok(arg.wire) = RangeSerialize(<<Excluded(0), Included(1)>>)
    /\ res.interval = Ok(<<Excluded(0), Included(1)>>)

(***************************************************************************)
(* newslab-serde-cv: CameraMatrix.                                         *)
(***************************************************************************)
\* largest value drawn for a cell of a matrix (the type R64)
MaxCell == 2

Cells == 0..MaxCell

Rows == Cells \X Cells \X Cells

\* [[R64; 3]; 3], row-major
Matrices == Rows \X Rows \X Rows

\* mat[i][j] with the source's indices, which count from zero
Cell(m, i, j) == m[i + 1][j + 1]

\* the ensure! without its test of the bottom-right cell
PatternNoBottomRight(mat) ==
    /\ Cell(mat, 0, 1) = 0
    /\ Cell(mat, 1, 0) = 0
    /\ Cell(mat, 2, 0) = 0
    /\ Cell(mat, 2, 1) = 0
    /\ Cell(mat, 2, 2) # 0

\* the condition of the ensure! in TryFrom<CameraMatrixUnchecked>
Pattern(mat) ==
    /\ Cell(mat, 0, 1) = 0
    /\ Cell(mat, 1, 0) = 0
    /\ Cell(mat, 2, 0) = 0
    /\ Cell(mat, 2, 1) = 0
    /\ Cell(mat, 2, 2) = 1

\* impl TryFrom<CameraMatrixUnchecked> for CameraMatrix
TryFromUnchecked(mat) == IF Pattern(mat) THEN Ok(mat) ELSE Err

\* impl From<CameraMatrix> for CameraMatrixUnchecked: the cells as they are
IntoUnchecked(m) == m

\* CameraMatrix::identity
Identity == <<<<1, 0, 0>>, <<0, 1, 0>>, <<0, 0, 1>>>>

\* CameraMatrix::fx, fy, cx, cy
Fx(m) == Cell(m, 0, 0)
Fy(m) == Cell(m, 1, 1)
Cx(m) == Cell(m, 0, 2)
Cy(m) == Cell(m, 1, 2)

CameraInit ==
    /\ op = "none"
    /\ arg = NoValue
    /\ res = NoRes
    /\ cm = Empty

\* CameraMatrix::deserialize: #[serde(try_from = "CameraMatrixUnchecked")]
CameraDeserialize ==
    /\ op = "none"
    /\ \E mat \in Matrices :
          /\ op' = "CameraMatrix::deserialize"
          /\ arg' = [mat |-> mat]
          /\ res' = [mat |-> TryFromUnchecked(mat)]
          /\ cm' = IF IsOk(TryFromUnchecked(mat)) THEN Held(TryFromUnchecked(mat).val) ELSE Empty

\* CameraMatrix::identity() / CameraMatrix::default()
CameraIdentity ==
    /\ op = "none"
    /\ op' = "CameraMatrix::identity"
    /\ arg' = NoValue
    /\ res' = [mat |-> Ok(Identity)]
    /\ cm' = Held(Identity)

\* CameraMatrix(cells): the tuple constructor, open to callers through the pub field
CameraConstruct ==
    /\ op = "none"
    /\ \E mat \in Matrices :
          /\ op' = "CameraMatrix"
          /\ arg' = [mat |-> mat]
          /\ res' = [mat |-> Ok(mat)]
          /\ cm' = Held(mat)

\* m.0[i][j] = v: a write through the pub field of a value the caller holds
CameraSetCell ==
    /\ cm.held
    /\ \E i \in 0..2, j \in 0..2, v \in Cells :
          cm' = Held([cm.mat EXCEPT ![i + 1][j + 1] = v])
    /\ op' = "CameraMatrix.0[i][j] = v"
    /\ arg' = NoValue
    /\ res' = NoRes

\* m.clone(): the derived Clone copies the cells
CameraClone ==
    /\ cm.held
    /\ op' = "CameraMatrix::clone"
    /\ arg' = NoValue
    /\ res' = [mat |-> Ok(cm.mat)]
    /\ UNCHANGED cm

\* CameraMatrix::serialize: #[serde(into = "CameraMatrixUnchecked")]
CameraSerialize ==
    /\ cm.held
    /\ op' = "CameraMatrix::serialize"
    /\ arg' = NoValue
    /\ res' = [mat |-> Ok(IntoUnchecked(cm.mat))]
    /\ UNCHANGED cm

\* the codec alone: decode, then encode of what was decoded
CameraCodecNext ==
    \/ CameraDeserialize
    \/ CameraIdentity
    \/ (op \in {"CameraMatrix::deserialize", "CameraMatrix::identity"} /\ CameraSerialize)

SpecCameraCodec == CameraInit /\ [][CameraCodecNext]_vars

\* everything the public interface of the type allows
CameraNext ==
    \/ CameraDeserialize
    \/ CameraIdentity
    \/ CameraConstruct
    \/ CameraSetCell
    \/ CameraClone
    \/ CameraSerialize

SpecCamera == CameraInit /\ [][CameraNext]_vars

\* C6: every CameraMatrix value a caller can hold satisfies the zero/one
\* pattern, and so does every array encode emits.
C6_PatternAlways ==
    /\ cm.held => Pattern(cm.mat)
    /\ op = "CameraMatrix::serialize" => Pattern(res.mat.val)

\* C7: decode succeeds exactly on the matrices with the zero/one pattern; the
\* decoded value holds the input cells unchanged, with fx, fy, cx, cy read from
\* m[0][0], m[1][1], m[0][2], m[1][2]; a failure yields no value.
C7_DecodeValidation ==
    op = "CameraMatrix::deserialize" =>
        LET m == arg.mat
        IN  /\ IsOk(res.mat) <=> (/\ m[1][2] = 0 /\ m[2][1] = 0 /\ m[3][1] = 0
                                  /\ m[3][2] = 0 /\ m[3][3] = 1)
            /\ IsOk(res.mat) => /\ res.mat.val = m
                                /\ cm = Held(m)
                                /\ Fx(cm.mat) = m[1][1]
                                /\ Fy(cm.mat) = m[2][2]
                                /\ Cx(cm.mat) = m[1][3]
                                /\ Cy(cm.mat) = m[2][3]
            /\ ~IsOk(res.mat) => (res.mat = Err /\ cm = Empty)

\* the matrix of the doc test, scaled to the model's cells, has been decoded
C7_Witness ==
    /\ op = "CameraMatrix::deserialize"
    /\ arg.mat = <<<<1, 0, 2>>, <<0, 2, 1>>, <<0, 0, 1>>>>
    /\ IsOk(res.mat)

(***************************************************************************)
(* f64 as exact decimals: a finite value is m * 10^x with m not divisible  *)
(* by ten (zero is 0 * 10^0); inf, -inf and NaN are values of their own.   *)
(* Rounding to the nearest double is not modelled.                         *)
(***************************************************************************)
\* largest mantissa drawn for a value
MaxMant == 12

\* values are drawn with decimal exponents -ExpRange..ExpRange
ExpRange == 11

Fin(m, x) == [cls |-> "fin", m |-> m, x |-> x]
PosInf == [cls |-> "inf", m |-> 0, x |-> 0]
NegInf == [cls |-> "-inf", m |-> 0, x |-> 0]
NaN == [cls |-> "nan", m |-> 0, x |-> 0]

Abs(n) == IF n < 0 THEN 0 - n ELSE n

\* the canonical form of m * 10^x
RECURSIVE Norm(_, _)
Norm(m, x) ==
    IF m = 0 THEN Fin(0, 0)
    ELSE IF m % 10 = 0 THEN Norm(m \div 10, x + 1)
    ELSE Fin(m, x)

RECURSIVE NumDigits(_)
NumDigits(n) == IF n < 10 THEN 1 ELSE 1 + NumDigits(n \div 10)

IsFinite(v) == v.cls = "fin"

\* f64::abs
FAbs(v) == IF v.cls = "-inf" THEN PosInf ELSE IF v.cls = "fin" THEN Fin(Abs(v.m), v.x) ELSE v

\* floor(log10(|v|)) of a finite non-zero value
Log10Floor(v) == v.x + NumDigits(Abs(v.m)) - 1

\* a < b on finite non-negative values
LtNonNeg(a, b) ==
    IF b.m = 0 THEN FALSE
    ELSE IF a.m = 0 THEN TRUE
    ELSE IF Log10Floor(a) # Log10Floor(b) THEN Log10Floor(a) < Log10Floor(b)
    ELSE LET na == NumDigits(a.m)
             nb == NumDigits(b.m)
             n == IF na > nb THEN na ELSE nb
         IN  a.m * Pow(10, n - na) < b.m * Pow(10, n - nb)

\* a < b on f64 (false when either is NaN)
FLt(a, b) ==
    IF a.cls = "nan" \/ b.cls = "nan" THEN FALSE
    ELSE IF a.cls = "inf" \/ b.cls = "-inf" THEN FALSE
    ELSE IF a.cls = "-inf" \/ b.cls = "inf" THEN TRUE
    ELSE IF a.m < 0 /\ b.m >= 0 THEN TRUE
    ELSE IF a.m >= 0 /\ b.m < 0 THEN FALSE
    ELSE IF a.m < 0 THEN LtNonNeg(FAbs(b), FAbs(a))
    ELSE LtNonNeg(a, b)

\* a <= b on f64 (false when either is NaN)
FLe(a, b) == a.cls # "nan" /\ b.cls # "nan" /\ (a = b \/ FLt(a, b))

\* v * 10^k, the product with a power of ten
Scale10(v, k) == IF v.cls = "fin" /\ v.m # 0 THEN Fin(v.m, v.x + k) ELSE v

\* v * (fm * 10^fx), the product with a decimal constant
ScaleBy(v, fm, fx) == IF v.cls = "fin" THEN Norm(v.m * fm, v.x + fx) ELSE v

RECURSIVE Zeros(_)
Zeros(n) == IF n <= 0 THEN <<>> ELSE <<"0">> \o Zeros(n - 1)

\* a signed integer in decimal, as `{}` prints an i32
FmtInt(n) == IF n < 0 THEN <<"-">> \o FmtUInt(0 - n) ELSE FmtUInt(n)

\* the text of inf and NaN, the same under `{}` and `{:e}`
FmtSpecial(v) ==
    IF v.cls = "inf" THEN <<"i", "n", "f">>
    ELSE IF v.cls = "-inf" THEN <<"-", "i", "n", "f">>
    ELSE <<"N", "a", "N">>

\* format!("{}", f64): plain decimal, shortest digits, never an exponent
FmtFixed(v) ==
    IF v.cls # "fin" THEN FmtSpecial(v)
    ELSE LET d == FmtUInt(Abs(v.m))
             n == Len(d)
             sign == IF v.m < 0 THEN <<"-">> ELSE <<>>
         IN  IF v.x >= 0 THEN sign \o d \o Zeros(v.x)
             ELSE IF n > 0 - v.x
                  THEN sign \o SubSeq(d, 1, n + v.x) \o <<".">> \o SubSeq(d, n + v.x + 1, n)
             ELSE sign \o <<"0", ".">> \o Zeros(0 - v.x - n) \o d

\* format!("{:e}", f64): one digit, the rest after a point, then e and the exponent
FmtExp(v) ==
    IF v.cls # "fin" THEN FmtSpecial(v)
    ELSE LET d == FmtUInt(Abs(v.m))
             n == Len(d)
             sign == IF v.m < 0 THEN <<"-">> ELSE <<>>
             frac == IF n > 1 THEN <<".">> \o SubSeq(d, 2, n) ELSE <<>>
         IN  sign \o <<d[1]>> \o frac \o <<"e">> \o FmtInt(v.x + n - 1)

\* ASCII lower case of the letters a text of a number can hold
LowerChar(c) ==
    IF c = "N" THEN "n" ELSE IF c = "A" THEN "a" ELSE IF c = "I" THEN "i"
    ELSE IF c = "F" THEN "f" ELSE IF c = "E" THEN "e" ELSE c

Lower(s) == [i \in 1..Len(s) |-> LowerChar(s[i])]

AllDigits(s) == \A i \in 1..Len(s) : IsDigit(s[i])

\* the position of the first character of s equal to c, or 0
FirstIndex(s, c) ==
    IF \E i \in 1..Len(s) : s[i] = c
    THEN CHOOSE i \in 1..Len(s) : s[i] = c /\ \A j \in 1..(i - 1) : s[j] # c
    ELSE 0

RECURSIVE StripLeadingZeros(_)
StripLeadingZeros(d) ==
    IF d # <<>> /\ Head(d) = "0" THEN StripLeadingZeros(Tail(d)) ELSE d

\* digits without trailing zeros, and how many were dropped
RECURSIVE StripTrailingZeros(_, _)
StripTrailingZeros(d, k) ==
    IF d # <<>> /\ d[Len(d)] = "0" THEN StripTrailingZeros(SubSeq(d, 1, Len(d) - 1), k + 1)
    ELSE [digits |-> d, dropped |-> k]

RECURSIVE DigitsToInt(_, _)
DigitsToInt(d, acc) ==
    IF d = <<>> THEN acc ELSE DigitsToInt(Tail(d), acc * 10 + DigitVal(Head(d)))

\* the value of the digit string d times 10^x
DecimalOf(neg, d, x) ==
    LET t == StripTrailingZeros(StripLeadingZeros(d), 0)
        m == DigitsToInt(t.digits, 0)
    IN  IF t.digits = <<>> THEN Fin(0, 0)
        ELSE Fin(IF neg THEN 0 - m ELSE m, x + t.dropped)

\* Exp ::= 'e' Sign? Digit+ : Ok(exponent) or Err
ParseExponent(s) ==
    LET signed == s # <<>> /\ Head(s) \in {"+", "-"}
        body == IF signed THEN Tail(s) ELSE s
    IN  IF body = <<>> \/ ~AllDigits(body) THEN Err
        ELSE Ok(IF signed /\ Head(s) = "-" THEN 0 - DigitsToInt(body, 0)
                ELSE DigitsToInt(body, 0))

\* Number ::= ( Digit+ | Digit+ '.' Digit* | Digit* '.' Digit+ ) Exp?
ParseNumber(neg, s) ==
    LET epos == FirstIndex(s, "e")
        mant == IF epos = 0 THEN s ELSE SubSeq(s, 1, epos - 1)
        ex == IF epos = 0 THEN Ok(0) ELSE ParseExponent(SubSeq(s, epos + 1, Len(s)))
        dot == FirstIndex(mant, ".")
        ip == IF dot = 0 THEN mant ELSE SubSeq(mant, 1, dot - 1)
        fp == IF dot = 0 THEN <<>> ELSE SubSeq(mant, dot + 1, Len(mant))
    IN  IF ~IsOk(ex) THEN Err
        ELSE IF ~AllDigits(ip) \/ ~AllDigits(fp) THEN Err
        ELSE IF ip = <<>> /\ fp = <<>> THEN Err
        ELSE Ok(DecimalOf(neg, ip \o fp, ex.val - Len(fp)))

\* <f64 as FromStr>::from_str:
\* Float ::= Sign? ( 'inf' | 'infinity' | 'nan' | Number ), letters in either case
ParseF64(text) ==
    LET signed == text # <<>> /\ Head(text) \in {"+", "-"}
        neg == signed /\ Head(text) = "-"
        body == Lower(IF signed THEN Tail(text) ELSE text)
    IN  IF body \in {<<"i", "n", "f">>, <<"i", "n", "f", "i", "n", "i", "t", "y">>}
        THEN Ok(IF neg THEN NegInf ELSE PosInf)
        ELSE IF body = <<"n", "a", "n">> THEN Ok(NaN)
        ELSE ParseNumber(neg, body)

\* the finite values drawn as inputs
FiniteFloats ==
    {Norm(sg * m, x) : sg \in {1, -1}, m \in 0..MaxMant, x \in (0 - ExpRange)..ExpRange}

Floats == FiniteFloats \cup {PosInf, NegInf, NaN}

\* whether text s ends with p
EndsWith(s, p) ==
    /\ Len(s) >= Len(p)
    /\ \A i \in 1..Len(p) : s[Len(s) - Len(p) + i] = p[i]

(***************************************************************************)
(* newslab-serde-measurements: angle.  An Angle is kept as the number and  *)
(* the unit it was built from; the factor pi/180 between the two units is  *)
(* not a decimal and is never multiplied out.                              *)
(***************************************************************************)
DegText == <<"d", "e", "g">>
RadText == <<"r", "a", "d">>

\* Angle::from_degrees / Angle::from_radians
FromDegrees(v) == [unit |-> "deg", v |-> v]
FromRadians(v) == [unit |-> "rad", v |-> v]

\* Angle::as_degrees, of an angle built from degrees
AsDegrees(angle) == angle.v

\* (1e-3..=1e3).contains(&degs)
InNormalWindow(degs) == FLe(Fin(1, -3), degs) /\ FLe(degs, Fin(1, 3))

\* angle::serialize
AngleSerialize(angle) ==
    LET degs == AsDegrees(angle)
    IN  IF InNormalWindow(degs) THEN Ok(FmtFixed(degs) \o DegText)
        ELSE Ok(FmtExp(degs) \o DegText)

\* the closure parse_number of angle::deserialize and length::deserialize
ParseNumberClosure(text) == ParseF64(text)

\* angle::deserialize with the constructors of its two branches exchanged
AngleDeserializeSwapped(text) ==
    IF IsOk(StripSuffix(text, DegText))
    THEN LET value == ParseNumberClosure(StripSuffix(text, DegText).val)
         IN  IF IsOk(value) THEN Ok(FromRadians(value.val)) ELSE Err
    ELSE IF IsOk(StripSuffix(text, RadText))
    THEN LET value == ParseNumberClosure(StripSuffix(text, RadText).val)
         IN  IF IsOk(value) THEN Ok(FromDegrees(value.val)) ELSE Err
    ELSE Err

\* angle::deserialize
AngleDeserialize(text) ==
    IF IsOk(StripSuffix(text, DegText))
    THEN LET value == ParseNumberClosure(StripSuffix(text, DegText).val)
         IN  IF IsOk(value) THEN Ok(FromDegrees(value.val)) ELSE Err
    ELSE IF IsOk(StripSuffix(text, RadText))
    THEN LET value == ParseNumberClosure(StripSuffix(text, RadText).val)
         IN  IF IsOk(value) THEN Ok(FromRadians(value.val)) ELSE Err
    ELSE Err

\* texts that are no number for f64::from_str
BadNumberTexts ==
    {<<>>, <<"x">>, <<"-">>, <<".">>, <<"1", " ">>, <<" ", "1">>, <<"1", ".", ".", "2">>,
     <<"e", "5">>, <<"1", "e">>, <<"1", ",", "5">>, <<"5", "d", "e", "g">>, <<"5", "r", "a", "d">>}

\* numbers written by hand, as in the doc tests
HandNumberTexts ==
    {<<"3", ".", "0">>, <<"-", "1", ".", "0">>, <<"5", ".", "0">>, <<"+", "2">>,
     <<".", "5">>, <<"1", ".">>, <<"1", "E", "2">>, <<"0", "0", "7">>}

NumberTexts ==
    {FmtFixed(v) : v \in Floats} \cup {FmtExp(v) : v \in Floats}
        \cup HandNumberTexts \cup BadNumberTexts

\* what may follow the number in a text handed to angle::deserialize
AngleSuffixes ==
    {DegText, RadText, <<>>, <<"d", "e">>, <<"D", "E", "G">>, <<"r", "a", "d", "s">>,
     <<"d", "e", "g", " ">>, <<"m">>}

AngleTexts == {n \o u : n \in NumberTexts, u \in AngleSuffixes}

AngleInit ==
    /\ op = "none"
    /\ arg = NoValue
    /\ res = NoRes
    /\ cm = Empty

AngleSerializeCall ==
    /\ op = "none"
    /\ \E d \in Floats :
          /\ op' = "angle::serialize"
          /\ arg' = [angle |-> FromDegrees(d)]
          /\ res' = [text |-> AngleSerialize(FromDegrees(d))]
    /\ UNCHANGED cm

AngleDeserializeCall ==
    /\ op = "none"
    /\ \E text \in AngleTexts :
          /\ op' = "angle::deserialize"
          /\ arg' = [text |-> text]
          /\ res' = [angle |-> AngleDeserialize(text)]
    /\ UNCHANGED cm

AngleNext ==
    \/ AngleSerializeCall
    \/ AngleDeserializeCall

SpecAngle == AngleInit /\ [][AngleNext]_vars

\* the text has no exponent part
IsFixedNotation(num) == \A i \in 1..Len(num) : num[i] # "e"

\* C8: the emitted unit is always deg, and a finite degrees value d is printed
\* in fixed notation exactly when 1e-3 <= |d| <= 1e3, in exponential notation
\* otherwise.
C8_AngleWindow ==
    (op = "angle::serialize" /\ IsFinite(arg.angle.v)) =>
        LET d == arg.angle.v
            text == res.text.val
        IN  /\ IsOk(res.text)
            /\ EndsWith(text, DegText)
            /\ IsFixedNotation(SubSeq(text, 1, Len(text) - 3))
                  <=> (FLe(Fin(1, -3), FAbs(d)) /\ FLe(FAbs(d), Fin(1, 3)))

\* every number the model draws, in both notations, with each unit, and the
\* angle it denotes
AngleCases ==
    UNION {{[text |-> FmtFixed(v) \o DegText, angle |-> FromDegrees(v)],
            [text |-> FmtExp(v) \o DegText, angle |-> FromDegrees(v)],
            [text |-> FmtFixed(v) \o RadText, angle |-> FromRadians(v)],
            [text |-> FmtExp(v) \o RadText, angle |-> FromRadians(v)]} : v \in Floats}

\* a recognised unit after a prefix that is no number
AngleBadPrefixTexts == {b \o u : b \in BadNumberTexts, u \in {DegText, RadText}}

\* C10: a number followed by deg decodes to that many degrees, a number
\* followed by rad to that many radians, and every other text is an error: no
\* value comes from a text without a unit or with a prefix that is no number,
\* and the two units are never exchanged.
C10_AngleDispatch ==
    op = "angle::deserialize" =>
        LET text == arg.text
            r == res.angle
        IN  /\ \A c \in AngleCases : text = c.text => r = Ok(c.angle)
            /\ (~EndsWith(text, DegText) /\ ~EndsWith(text, RadText)) => r = Err
            /\ text \in AngleBadPrefixTexts => r = Err
            /\ IsOk(r) =>
                  /\ r.val.unit = (IF EndsWith(text, DegText) THEN "deg" ELSE "rad")
                  /\ ParseF64(SubSeq(text, 1, Len(text) - 3)) = Ok(r.val.v)
            /\ text = <<"3", ".", "0">> \o DegText => r = Ok(FromDegrees(Fin(3, 0)))
            /\ text = <<"-", "1", ".", "0">> \o RadText => r = Ok(FromRadians(Fin(-1, 0)))

\* "-1.0rad" of the doc test has been decoded
C10_Witness ==
    /\ op = "angle::deserialize"
    /\ arg.text = <<"-", "1", ".", "0", "r", "a", "d">>
    /\ res.angle = Ok(FromRadians(Fin(-1, 0)))

(***************************************************************************)
(* newslab-serde-measurements: length.  A Length built from a metric unit  *)
(* is kept in meters; one built from an imperial unit is kept as the       *)
(* number and the unit it was built from.  The micro sign is the one       *)
(* character "mu".                                                         *)
(***************************************************************************)
\* Length::from_meters and Length::as_meters
FromMeters(v) == [unit |-> "m", v |-> v]
AsMeters(len) == len.v

\* Length::from_nanometers ... from_kilometers: a power of ten of a meter
FromMetric(v, k) == FromMeters(Scale10(v, k))

\* Length::from_inches, from_yards, from_miles, from_furlongs, from_feet
FromImperial(v, unit) == [unit |-> unit, v |-> v]

\* struct ScientificNotation and ScientificNotation::from_float
FromFloat(value) ==
    IF ~IsFinite(value) \/ value = Fin(0, 0)
    THEN [significand |-> value, exponent |-> 0]
    ELSE [significand |-> Scale10(value, 0 - Log10Floor(value)),
          exponent |-> Log10Floor(value)]

\* the if-chain with `exponent > -3` in its millimeter test
BracketStrictMilli(exponent) ==
    IF exponent >= 6 THEN "km-exp"
    ELSE IF exponent >= 3 THEN "km"
    ELSE IF exponent >= 0 THEN "m"
    ELSE IF exponent > -3 THEN "mm"
    ELSE IF exponent >= -6 THEN "um"
    ELSE IF exponent >= -9 THEN "nm"
    ELSE "nm-exp"

\* the branch of the if-chain of length::serialize that an exponent takes
Bracket(exponent) ==
    IF exponent >= 6 THEN "km-exp"
    ELSE IF exponent >= 3 THEN "km"
    ELSE IF exponent >= 0 THEN "m"
    ELSE IF exponent >= -3 THEN "mm"
    ELSE IF exponent >= -6 THEN "um"
    ELSE IF exponent >= -9 THEN "nm"
    ELSE "nm-exp"

\* length::serialize
LengthSerialize(len) ==
    LET sn == FromFloat(AsMeters(len))
        significand == sn.significand
        exponent == sn.exponent
        b == Bracket(exponent)
    IN  Ok(CASE b = "km-exp" -> FmtExp(Scale10(significand, exponent - 3)) \o <<"k", "m">>
             [] b = "km" -> FmtFixed(Scale10(significand, exponent - 3)) \o <<"k", "m">>
             [] b = "m" -> FmtFixed(significand) \o <<"m">>
             [] b = "mm" -> FmtFixed(Scale10(significand, exponent + 3)) \o <<"m", "m">>
             [] b = "um" -> FmtFixed(Scale10(significand, exponent + 6)) \o <<"mu", "m">>
             [] b = "nm" -> FmtFixed(Scale10(significand, exponent + 9)) \o <<"n", "m">>
             [] OTHER -> FmtExp(Scale10(significand, exponent + 9)) \o <<"n", "m">>)

\* the chain with the bare meter tried before every other suffix
UnitTableMeterFirst ==
    << [suffix |-> <<"m">>, unit |-> "m"],
       [suffix |-> <<"n", "m">>, unit |-> "nm"],
       [suffix |-> <<"u", "m">>, unit |-> "um"],
       [suffix |-> <<"mu", "m">>, unit |-> "um"],
       [suffix |-> <<"m", "m">>, unit |-> "mm"],
       [suffix |-> <<"c", "m">>, unit |-> "cm"],
       [suffix |-> <<"d", "m">>, unit |-> "dm"],
       [suffix |-> <<"h", "m">>, unit |-> "hm"],
       [suffix |-> <<"k", "m">>, unit |-> "km"],
       [suffix |-> <<"i", "n">>, unit |-> "in"],
       [suffix |-> <<"y", "d">>, unit |-> "yd"],
       [suffix |-> <<"m", "i">>, unit |-> "mi"],
       [suffix |-> <<"f", "u", "r", "l", "o", "n", "g">>, unit |-> "furlong"],
       [suffix |-> <<"f", "t">>, unit |-> "ft"] >>

\* the suffixes of length::deserialize in the order they are tried, each with
\* the constructor its branch calls
UnitTable ==
    << [suffix |-> <<"n", "m">>, unit |-> "nm"],
       [suffix |-> <<"u", "m">>, unit |-> "um"],
       [suffix |-> <<"mu", "m">>, unit |-> "um"],
       [suffix |-> <<"u", "m">>, unit |-> "um"],
       [suffix |-> <<"m", "m">>, unit |-> "mm"],
       [suffix |-> <<"c", "m">>, unit |-> "cm"],
       [suffix |-> <<"d", "m">>, unit |-> "dm"],
       [suffix |-> <<"h", "m">>, unit |-> "hm"],
       [suffix |-> <<"k", "m">>, unit |-> "km"],
       [suffix |-> <<"m">>, unit |-> "m"],
       [suffix |-> <<"i", "n">>, unit |-> "in"],
       [suffix |-> <<"y", "d">>, unit |-> "yd"],
       [suffix |-> <<"m", "i">>, unit |-> "mi"],
       [suffix |-> <<"f", "u", "r", "l", "o", "n", "g">>, unit |-> "furlong"],
       [suffix |-> <<"f", "t">>, unit |-> "ft"] >>

\* the Length constructor of a branch
LengthFrom(value, unit) ==
    CASE unit = "nm" -> FromMetric(value, -9)
      [] unit = "um" -> FromMetric(value, -6)
      [] unit = "mm" -> FromMetric(value, -3)
      [] unit = "cm" -> FromMetric(value, -2)
      [] unit = "dm" -> FromMetric(value, -1)
      [] unit = "hm" -> FromMetric(value, 2)
      [] unit = "km" -> FromMetric(value, 3)
      [] unit = "m" -> FromMeters(value)
      [] OTHER -> FromImperial(value, unit)

\* the if-chain of length::deserialize from its i-th branch on
RECURSIVE LengthDispatch(_, _)
LengthDispatch(text, i) ==
    IF i > Len(UnitTable) THEN Err
    ELSE IF IsOk(StripSuffix(text, UnitTable[i].suffix))
    THEN LET value == ParseNumberClosure(StripSuffix(text, UnitTable[i].suffix).val)
         IN  IF IsOk(value) THEN Ok(LengthFrom(value.val, UnitTable[i].unit)) ELSE Err
    ELSE LengthDispatch(text, i + 1)

\* length::deserialize
LengthDeserialize(text) == LengthDispatch(text, 1)

\* the lengths drawn as inputs, in meters
Lengths == {FromMeters(v) : v \in Floats}

\* texts written by hand, as in the doc test
HandLengthTexts ==
    {<<"2", "m">>, <<"-", "0", ".", "4", "m", "m">>, <<"0", ".", "4", "m", "m">>,
     <<"2">>, <<"m">>, <<"x", "m">>, <<"2", "k", "g">>}

\* texts handed to length::deserialize: everything encode writes, and the above
LengthTexts == {LengthSerialize(len).val : len \in Lengths} \cup HandLengthTexts

LengthInit ==
    /\ op = "none"
    /\ arg = NoValue
    /\ res = NoRes
    /\ cm = Empty

LengthSerializeCall ==
    /\ op = "none"
    /\ \E len \in Lengths :
          /\ op' = "length::serialize"
          /\ arg' = [len |-> len]
          /\ res' = [text |-> LengthSerialize(len)]
    /\ UNCHANGED cm

LengthDeserializeCall ==
    /\ op = "none"
    /\ \E text \in LengthTexts :
          /\ op' = "length::deserialize"
          /\ arg' = [text |-> text]
          /\ res' = [len |-> LengthDeserialize(text)]
    /\ UNCHANGED cm

LengthNext ==
    \/ LengthSerializeCall
    \/ LengthDeserializeCall

SpecLength == LengthInit /\ [][LengthNext]_vars

\* every finite length the model draws with the text encode writes for it
LengthCases ==
    {[text |-> LengthSerialize(len).val, len |-> len] : len \in {l \in Lengths : IsFinite(l.v)}}

\* C2: decoding the text encode wrote for a finite length gives that length
\* back, so no two finite lengths share a text.
C2_LengthRoundTrip ==
    op = "length::deserialize" =>
        \A c \in LengthCases : arg.text = c.text => res.len = Ok(c.len)

\* the decimal exponent e of a value: 10^e <= |v| < 10^(e+1), and 0 for zero
\* and for the values that are not finite
HasExponent(v, e) ==
    IF IsFinite(v) /\ v.m # 0
    THEN FLe(Fin(1, e), FAbs(v)) /\ FLt(FAbs(v), Fin(1, e + 1))
    ELSE e = 0

\* the unit a text ends with, among those encode writes
UnitOfText(text) ==
    IF EndsWith(text, <<"k", "m">>) THEN "km"
    ELSE IF EndsWith(text, <<"m", "m">>) THEN "mm"
    ELSE IF EndsWith(text, <<"mu", "m">>) THEN "um"
    ELSE IF EndsWith(text, <<"n", "m">>) THEN "nm"
    ELSE IF EndsWith(text, <<"m">>) THEN "m"
    ELSE "none"

\* the unit and notation the ladder of the claim gives an exponent
LadderOf(e) ==
    IF e >= 6 THEN [unit |-> "km", fixed |-> FALSE]
    ELSE IF 3 <= e /\ e < 6 THEN [unit |-> "km", fixed |-> TRUE]
    ELSE IF 0 <= e /\ e < 3 THEN [unit |-> "m", fixed |-> TRUE]
    ELSE IF -3 <= e /\ e < 0 THEN [unit |-> "mm", fixed |-> TRUE]
    ELSE IF -6 <= e /\ e < -3 THEN [unit |-> "um", fixed |-> TRUE]
    ELSE IF -9 <= e /\ e < -6 THEN [unit |-> "nm", fixed |-> TRUE]
    ELSE [unit |-> "nm", fixed |-> FALSE]

\* the exponents a drawn value can have
Exponents == (0 - ExpRange - 2)..(ExpRange + 4)

\* C9: encode picks the unit and the notation by the bracket of the decimal
\* exponent e of the magnitude in meters (e = 0 for zero and for values that
\* are not finite): km in exponential form for e >= 6, km for 3 <= e < 6, m
\* for 0 <= e < 3, mm for -3 <= e < 0, micrometers for -6 <= e < -3, nm for
\* -9 <= e < -6 and nm in exponential form below; each value has one bracket.
C9_LengthLadder ==
    op = "length::serialize" =>
        LET v == arg.len.v
            text == res.text.val
        IN  /\ IsOk(res.text)
            /\ \E e \in Exponents : HasExponent(v, e)
            /\ \A e \in Exponents :
                  HasExponent(v, e) =>
                      /\ UnitOfText(text) = LadderOf(e).unit
                      /\ IsFinite(v) => (IsFixedNotation(text) <=> LadderOf(e).fixed)

\* 0.0004 m, of exponent -4, has been written in micrometers
C9_Witness ==
    /\ op = "length::serialize"
    /\ arg.len = FromMeters(Fin(4, -4))
    /\ res.text = Ok(<<"4", "0", "0", "mu", "m">>)

(***************************************************************************)
(* newslab-serde-num: Fraction::reduce and Fraction::recip.                *)
(***************************************************************************)
\* u64::trailing_zeros of a non-zero value
RECURSIVE TrailingZeros(_)
TrailingZeros(n) == IF n % 2 = 1 THEN 0 ELSE 1 + TrailingZeros(n \div 2)

\* the loop of gcd::binary_u64 on two odd-reduced values: subtract the
\* smaller from the larger and drop the factors of two, until they meet
RECURSIVE BinaryLoop(_, _)
BinaryLoop(u, v) ==
    IF u = v THEN u
    ELSE IF u > v THEN BinaryLoop((u - v) \div Pow(2, TrailingZeros(u - v)), v)
    ELSE BinaryLoop(u, (v - u) \div Pow(2, TrailingZeros(v - u)))

\* gcd::binary_u64 (Stein's algorithm): a zero argument gives the other one
BinaryU64(u, v) ==
    IF u = 0 THEN v
    ELSE IF v = 0 THEN u
    ELSE LET tu == TrailingZeros(u)
             tv == TrailingZeros(v)
             shift == IF tu < tv THEN tu ELSE tv
         IN  BinaryLoop(u \div Pow(2, tu), v \div Pow(2, tv)) * Pow(2, shift)

\* NonZeroU64::new(n).unwrap(): a panic on zero
NonZeroUnwrap(n) == IF n = 0 THEN Panic ELSE Ok(n)

\* reduce that divides the numerator only
FractionReduceKeepDeno(v) ==
    LET gcd == BinaryU64(v.num, v.deno)
    IN  IF gcd = 0 THEN Panic
        ELSE Ok(Fraction(v.is_negative, v.num \div gcd, v.deno))

\* Fraction::reduce: Ok(value), or Panic where a division or the unwrap aborts
FractionReduce(v) ==
    LET gcd == BinaryU64(v.num, v.deno)
    IN  IF gcd = 0 THEN Panic
        ELSE LET deno == NonZeroUnwrap(v.deno \div gcd)
             IN  IF ~IsOk(deno) THEN Panic
                 ELSE Ok(Fraction(v.is_negative, v.num \div gcd, deno.val))

\* recip that clears the sign flag
FractionRecipDropSign(v) ==
    IF v.num = 0 THEN None ELSE Some(Fraction(FALSE, v.deno, v.num))

\* Fraction::recip: NonZeroU64::new(self.num)? gives None for a zero numerator
FractionRecip(v) ==
    IF v.num = 0 THEN None ELSE Some(Fraction(v.is_negative, v.deno, v.num))

\* v.reduce()
FractionReduceCall ==
    /\ op = "none"
    /\ \E v \in Fractions :
          /\ op' = "Fraction::reduce"
          /\ arg' = [frac |-> v]
          /\ res' = [frac |-> FractionReduce(v)]
    /\ UNCHANGED cm

\* v.reduce().reduce(): reduce of the value the first call returned
FractionReduceAgain ==
    /\ op = "Fraction::reduce"
    /\ IsOk(res.frac)
    /\ op' = "Fraction::reduce.reduce"
    /\ arg' = [frac |-> res.frac.val]
    /\ res' = [frac |-> FractionReduce(res.frac.val)]
    /\ UNCHANGED cm

\* v.recip()
FractionRecipCall ==
    /\ op = "none"
    /\ \E v \in Fractions :
          /\ op' = "Fraction::recip"
          /\ arg' = [frac |-> v]
          /\ res' = [opt |-> FractionRecip(v)]
    /\ UNCHANGED cm

\* v.recip().and_then(|r| r.recip()): recip of the value the first call returned
FractionRecipAgain ==
    /\ op = "Fraction::recip"
    /\ res.opt.some
    /\ op' = "Fraction::recip.recip"
    /\ arg' = [frac |-> res.opt.val, from |-> arg.frac]
    /\ res' = [opt |-> FractionRecip(res.opt.val)]
    /\ UNCHANGED cm

FractionOpsNext ==
    \/ FractionReduceCall
    \/ FractionReduceAgain
    \/ FractionRecipCall
    \/ FractionRecipAgain

SpecFractionOps == FractionInit /\ [][FractionOpsNext]_vars

\* d divides n
Divides(d, n) == n % d = 0

\* the greatest common divisor of n and a non-zero d, with gcd(0, d) = d
GreatestCommonDivisor(n, d) ==
    CHOOSE g \in 1..d :
        /\ Divides(g, n) /\ Divides(g, d)
        /\ \A h \in 1..d : (Divides(h, n) /\ Divides(h, d)) => h <= g

\* C12: reduce never fails and returns num / g over deno / g with
\* g = gcd(num, deno) and gcd(0, n) = n, the sign flag unchanged; the result
\* has a non-zero denominator, coprime numerator and denominator, denominator
\* 1 for a zero numerator; reducing a reduced value changes nothing.
C12_Reduce ==
    /\ op = "Fraction::reduce" =>
          LET v == arg.frac
              g == GreatestCommonDivisor(v.num, v.deno)
          IN  /\ IsOk(res.frac)
              /\ res.frac.val = Fraction(v.is_negative, v.num \div g, v.deno \div g)
              /\ res.frac.val.deno # 0
              /\ GreatestCommonDivisor(res.frac.val.num, res.frac.val.deno) = 1
              /\ v.num = 0 => (g = v.deno /\ res.frac.val.deno = 1)
    /\ op = "Fraction::reduce.reduce" => res.frac = Ok(arg.frac)

\* 1/2, as a first reduce returns it, has been reduced again
C12_Witness ==
    /\ op = "Fraction::reduce.reduce"
    /\ arg.frac = Fraction(FALSE, 1, 2)
    /\ res.frac = Ok(Fraction(FALSE, 1, 2))

\* C13: recip is None exactly for a zero numerator; otherwise it is Some of
\* deno / num with the same sign flag, its denominator is not zero, and the
\* reciprocal of the reciprocal is the value itself.
C13_Recip ==
    /\ op = "Fraction::recip" =>
          LET v == arg.frac
          IN  /\ res.opt = None <=> v.num = 0
              /\ v.num # 0 => /\ res.opt = Some(Fraction(v.is_negative, v.deno, v.num))
                              /\ res.opt.val.deno # 0
    /\ op = "Fraction::recip.recip" => res.opt = Some(arg.from)

\* -3/5 has been inverted twice
C13_Witness ==
    /\ op = "Fraction::recip.recip"
    /\ arg.from = Fraction(TRUE, 3, 5)
    /\ arg.frac = Fraction(TRUE, 5, 3)
    /\ res.opt = Some(Fraction(TRUE, 3, 5))

(***************************************************************************)
(* newslab-serde-common: non_empty_string.                                 *)
(***************************************************************************)
\* longest string drawn
MaxLen == 3

\* the characters strings are drawn from
StringChars == {"x", " ", "0"}

RECURSIVE StringsOfLen(_)
StringsOfLen(n) ==
    IF n = 0 THEN {<<>>}
    ELSE {Append(s, c) : s \in StringsOfLen(n - 1), c \in StringChars}

Strings == UNION {StringsOfLen(n) : n \in 0..MaxLen}

\* serialize without the is_empty test
NonEmptySerializeUnchecked(text) == Ok(text)

\* non_empty_string::serialize
NonEmptySerialize(text) ==
    IF Len(text) = 0 THEN Err ELSE Ok(text)

\* non_empty_string::deserialize
NonEmptyDeserialize(text) ==
    IF Len(text) = 0 THEN Err ELSE Ok(text)

NonEmptySerializeCall ==
    /\ op = "none"
    /\ \E text \in Strings :
          /\ op' = "non_empty_string::serialize"
          /\ arg' = [text |-> text]
          /\ res' = [text |-> NonEmptySerialize(text)]
    /\ UNCHANGED cm

NonEmptyDeserializeCall ==
    /\ op = "none"
    /\ \E text \in Strings :
          /\ op' = "non_empty_string::deserialize"
          /\ arg' = [text |-> text]
          /\ res' = [text |-> NonEmptyDeserialize(text)]
    /\ UNCHANGED cm

\* deserialize of the string a serialize emitted
NonEmptyDeserializeEmitted ==
    /\ op = "non_empty_string::serialize"
    /\ IsOk(res.text)
    /\ op' = "non_empty_string::deserialize(serialize)"
    /\ arg' = [text |-> res.text.val, from |-> arg.text]
    /\ res' = [text |-> NonEmptyDeserialize(res.text.val)]
    /\ UNCHANGED cm

NonEmptyNext ==
    \/ NonEmptySerializeCall
    \/ NonEmptyDeserializeCall
    \/ NonEmptyDeserializeEmitted

\* the calls start as those of range do: nothing called yet
SpecNonEmpty == RangeInit /\ [][NonEmptyNext]_vars

\* C14: decode and encode both fail on the empty string and hand every other
\* string through unchanged, so a non-empty string round-trips and the empty
\* string is neither produced by decode nor emitted by encode.
C14_NonEmpty ==
    /\ op \in {"non_empty_string::serialize", "non_empty_string::deserialize"} =>
          /\ arg.text = <<>> => res.text = Err
          /\ Len(arg.text) >= 1 => res.text = Ok(arg.text)
          /\ res.text # Ok(<<>>)
    /\ op = "non_empty_string::deserialize(serialize)" =>
          /\ arg.from # <<>>
          /\ res.text = Ok(arg.from)

\* the empty string has been refused by encode
C14_Witness ==
    /\ op = "non_empty_string::serialize"
    /\ arg.text = <<>>
    /\ res.text = Err

(***************************************************************************)
(* newslab-serde-num: Fraction::from_str on arbitrary texts.               *)
(***************************************************************************)
\* longest text handed to Fraction::from_str
MaxTextLen == 4

\* the characters the texts are drawn from: digits (one of them beyond the
\* 3-bit width), both signs, the separator and a blank
ParseChars == {"0", "1", "9", "-", "+", "/", " "}

RECURSIVE ParseTextsOfLen(_)
ParseTextsOfLen(n) ==
    IF n = 0 THEN {<<>>}
    ELSE {Append(s, c) : s \in ParseTextsOfLen(n - 1), c \in ParseChars}

ParseTexts == UNION {ParseTextsOfLen(n) : n \in 0..MaxTextLen}

\* text.parse::<Fraction>()
FractionFromStrCall ==
    /\ op = "none"
    /\ \E text \in ParseTexts :
          /\ op' = "Fraction::from_str"
          /\ arg' = [text |-> text]
          /\ res' = [frac |-> FractionFromStr(text)]
    /\ UNCHANGED cm

SpecFractionParse == FractionInit /\ [][FractionFromStrCall]_vars

\* one or more decimal digits denoting a value within the integer width
IsNumberInWidth(s) == s # <<>> /\ AllDigits(s) /\ DigitsToInt(s, 0) <= U64Max

\* [-]?<digits>/<digits>, both numbers within the width, the second not zero
MatchesGrammar(text) ==
    LET body == IF text # <<>> /\ Head(text) = "-" THEN Tail(text) ELSE text
    IN  \E i \in 1..Len(body) :
            /\ body[i] = "/"
            /\ IsNumberInWidth(SubSeq(body, 1, i - 1))
            /\ IsNumberInWidth(SubSeq(body, i + 1, Len(body)))
            /\ DigitsToInt(SubSeq(body, i + 1, Len(body)), 0) # 0

\* C16: from_str succeeds exactly on the texts of the grammar, an optional
\* leading '-' then digits, '/', digits, both numbers within the width and
\* the denominator not zero; every other text is an error.
C16_ParseGrammar ==
    op = "Fraction::from_str" => (IsOk(res.frac) <=> MatchesGrammar(arg.text))

(***************************************************************************)
(* newslab-serde-measurements: length::deserialize on a number followed by *)
(* a suffix.                                                               *)
(***************************************************************************)
\* spellings of the values that are not finite, as f64::from_str reads them
SpecialNumberTexts ==
    {<<"n", "a", "n">>, <<"N", "A", "n">>, <<"-", "n", "a", "n">>, <<"N", "A", "N">>,
     <<"i", "n", "f">>, <<"-", "i", "n", "f">>, <<"i", "n", "f", "i", "n", "i", "t", "y">>}

\* what the text handed to length::deserialize starts with
LengthPrefixes == NumberTexts \cup SpecialNumberTexts

\* what follows it: every suffix of the chain, and some that are none
LengthSuffixes ==
    {UnitTable[i].suffix : i \in 1..Len(UnitTable)}
        \cup {<<>>, <<"k", "g">>, <<"M">>, <<"m", " ">>, <<"K", "m">>, <<"f", "e", "e", "t">>}

\* length::deserialize of a prefix followed by a suffix
LengthDecodeCall ==
    /\ op = "none"
    /\ \E n \in LengthPrefixes, u \in LengthSuffixes :
          /\ op' = "length::deserialize"
          /\ arg' = [text |-> n \o u, number |-> n, suffix |-> u]
          /\ res' = [len |-> LengthDeserialize(n \o u)]
    /\ UNCHANGED cm

SpecLengthDecode == LengthInit /\ [][LengthDecodeCall]_vars

\* the recognised units in their priority order: the suffix, and the power
\* of ten of a meter the unit stands for (imperial units have none)
RecognisedUnits ==
    << [suffix |-> <<"n", "m">>, unit |-> "nm", metric |-> TRUE, power |-> -9],
       [suffix |-> <<"u", "m">>, unit |-> "um", metric |-> TRUE, power |-> -6],
       [suffix |-> <<"mu", "m">>, unit |-> "um", metric |-> TRUE, power |-> -6],
       [suffix |-> <<"m", "m">>, unit |-> "mm", metric |-> TRUE, power |-> -3],
       [suffix |-> <<"c", "m">>, unit |-> "cm", metric |-> TRUE, power |-> -2],
       [suffix |-> <<"d", "m">>, unit |-> "dm", metric |-> TRUE, power |-> -1],
       [suffix |-> <<"h", "m">>, unit |-> "hm", metric |-> TRUE, power |-> 2],
       [suffix |-> <<"k", "m">>, unit |-> "km", metric |-> TRUE, power |-> 3],
       [suffix |-> <<"m">>, unit |-> "m", metric |-> TRUE, power |-> 0],
       [suffix |-> <<"i", "n">>, unit |-> "in", metric |-> FALSE, power |-> 0],
       [suffix |-> <<"y", "d">>, unit |-> "yd", metric |-> FALSE, power |-> 0],
       [suffix |-> <<"m", "i">>, unit |-> "mi", metric |-> FALSE, power |-> 0],
       [suffix |-> <<"f", "u", "r", "l", "o", "n", "g">>, unit |-> "furlong",
        metric |-> FALSE, power |-> 0],
       [suffix |-> <<"f", "t">>, unit |-> "ft", metric |-> FALSE, power |-> 0] >>

\* the value n in the unit of entry u
InUnit(n, u) ==
    IF u.metric
    THEN [unit |-> "m", v |-> IF IsFinite(n) /\ n.m # 0 THEN Fin(n.m, n.x + u.power) ELSE n]
    ELSE [unit |-> u.unit, v |-> n]

\* the entries whose suffix the text ends with
MatchingUnits(text) ==
    {i \in 1..Len(RecognisedUnits) : EndsWith(text, RecognisedUnits[i].suffix)}

\* the first of them in priority order
FirstMatch(text) ==
    CHOOSE i \in MatchingUnits(text) : \A j \in MatchingUnits(text) : i <= j

\* the text without the suffix of its first match
PrefixOfFirstMatch(text) ==
    SubSeq(text, 1, Len(text) - Len(RecognisedUnits[FirstMatch(text)].suffix))

\* the text is a valid number followed by the suffix of entry i
IsNumberThenUnit(a, i) ==
    /\ a.suffix = RecognisedUnits[i].suffix
    /\ IsOk(ParseF64(a.number))

\* no suffix, or a prefix that is no number, is an error
LengthDecodeErrors ==
    op = "length::deserialize" =>
        /\ MatchingUnits(arg.text) = {} => res.len = Err
        /\ (MatchingUnits(arg.text) # {} /\ ~IsOk(ParseF64(PrefixOfFirstMatch(arg.text))))
              => res.len = Err

\* C15: a valid number n followed by a recognised unit u decodes to n in
\* unit u, whatever the number: no unit is shadowed by a suffix tried earlier;
\* a text with no recognised suffix, or with a prefix before the matched
\* suffix that is no number, is an error.
C15_SuffixDispatch ==
    /\ op = "length::deserialize" =>
          \A i \in 1..Len(RecognisedUnits) :
              IsNumberThenUnit(arg, i)
                  => res.len = Ok(InUnit(ParseF64(arg.number).val, RecognisedUnits[i]))
    /\ LengthDecodeErrors

\* the number's text ends with the letter n and the unit is the bare meter
EndsInNThenMeter(a) ==
    /\ a.suffix = <<"m">>
    /\ a.number # <<>>
    /\ a.number[Len(a.number)] = "n"

\* C15 (amended): a valid number n followed by a recognised unit u decodes to
\* n in unit u, except a number whose text ends with the lower-case letter n
\* (a spelling of NaN) followed by m: that text ends with nm, which is tried
\* first, and is an error; a text with no recognised suffix, or with a prefix
\* before the first matching suffix that is no number, is an error.
C15_SuffixDispatchAmended ==
    /\ op = "length::deserialize" =>
          /\ \A i \in 1..Len(RecognisedUnits) :
                (IsNumberThenUnit(arg, i) /\ ~EndsInNThenMeter(arg))
                    => res.len = Ok(InUnit(ParseF64(arg.number).val, RecognisedUnits[i]))
          /\ (IsOk(ParseF64(arg.number)) /\ EndsInNThenMeter(arg)) => res.len = Err
    /\ LengthDecodeErrors

\* "1.2km" has been decoded to 1200 m, and not read as a number of meters
C15_Witness ==
    /\ op = "length::deserialize"
    /\ arg.number = <<"1", ".", "2">>
    /\ arg.suffix = <<"k", "m">>
    /\ res.len = Ok(FromMeters(Fin(12, 2)))

(***************************************************************************)
(* newslab-serde-num: the order of Fraction on three values.  A caller     *)
(* holds a, b and c and compares them in a fixed schedule; a panic ends    *)
(* the calls.                                                              *)
(***************************************************************************)
\* largest numerator and denominator of the three values
OrdMax == 3

Min(x, y) == IF x < y THEN x ELSE y

\* the values with numerator and denominator up to n, within the width
FractionsUpTo(n) ==
    {Fraction(neg, k, d) : neg \in BOOLEAN, k \in 0..Min(n, U64Max), d \in 1..Min(n, U64Max)}

\* the pairs compared with cmp, in order, as indices into <<a, b, c>>
OrderSchedule == <<<<1, 2>>, <<2, 1>>, <<2, 3>>, <<1, 3>>>>

OrderInit ==
    /\ op = "start"
    /\ arg \in {[triple |-> <<a, b, c>>] :
                   a \in FractionsUpTo(OrdMax), b \in FractionsUpTo(OrdMax),
                   c \in FractionsUpTo(OrdMax)}
    /\ res = [ords |-> <<>>]
    /\ cm = Empty

\* the calls so far returned
NoPanic(ords) == \A i \in 1..Len(ords) : IsOk(ords[i])

\* the next cmp of the schedule
OrderCmpStep ==
    /\ Len(res.ords) < Len(OrderSchedule)
    /\ NoPanic(res.ords)
    /\ LET p == OrderSchedule[Len(res.ords) + 1]
       IN  \E r \in FractionCmp(arg.triple[p[1]], arg.triple[p[2]]) :
               res' = [ords |-> Append(res.ords, r)]
    /\ op' = "Fraction::cmp"
    /\ UNCHANGED <<arg, cm>>

\* after them, a.partial_cmp(&b)
OrderPartialCmpStep ==
    /\ Len(res.ords) = Len(OrderSchedule)
    /\ NoPanic(res.ords)
    /\ \E r \in FractionPartialCmp(arg.triple[1], arg.triple[2]) :
           res' = [ords |-> Append(res.ords, r)]
    /\ op' = "Fraction::partial_cmp"
    /\ UNCHANGED <<arg, cm>>

OrderNext ==
    \/ OrderCmpStep
    \/ OrderPartialCmpStep

SpecOrder == OrderInit /\ [][OrderNext]_vars

\* both cross products of x and y fit the integer width
Fits(x, y) == x.num * y.deno <= U64Max /\ y.num * x.deno <= U64Max

\* an ordering that is not Greater
IsLe(r) == r \in {Ok("Less"), Ok("Equal")}

\* C11: when the cross products fit, a negative flag compares Less than a
\* clear one, equal flags compare the cross products (reversed for two
\* negative values), cmp(b, a) is the reverse of cmp(a, b), a <= b and b <= c
\* give a <= c, and partial_cmp(a, b) is Some(cmp(a, b)).
C11_SignFirstOrder ==
    (op = "Fraction::partial_cmp" /\ Fits(arg.triple[1], arg.triple[2])
        /\ Fits(arg.triple[2], arg.triple[3]) /\ Fits(arg.triple[1], arg.triple[3])) =>
        LET a == arg.triple[1]
            b == arg.triple[2]
            ab == res.ords[1]
            ba == res.ords[2]
            bc == res.ords[3]
            ac == res.ords[4]
            pab == res.ords[5]
            cross == Ordering(a.num * b.deno, b.num * a.deno)
        IN  /\ NoPanic(res.ords)
            /\ (a.is_negative /\ ~b.is_negative) => ab = Ok("Less")
            /\ (~a.is_negative /\ b.is_negative) => ab = Ok("Greater")
            /\ (~a.is_negative /\ ~b.is_negative) => ab = Ok(cross)
            /\ (a.is_negative /\ b.is_negative) => ab = Ok(Reverse(cross))
            /\ ba = Ok(Reverse(ab.val))
            /\ (IsLe(ab) /\ IsLe(bc)) => IsLe(ac)
            /\ pab = ab

\* -1/2 < 1/2 < 2/3 has been found
C11_Witness ==
    /\ op = "Fraction::partial_cmp"
    /\ arg.triple = <<Fraction(TRUE, 1, 2), Fraction(FALSE, 1, 2), Fraction(FALSE, 2, 3)>>
    /\ res.ords = <<Ok("Less"), Ok("Greater"), Ok("Less"), Ok("Less"), Ok("Less")>>

(***************************************************************************)
(* newslab-serde-num: equality and order of Fraction on two values.  A     *)
(* caller holds a and b, compares them, reduces both, and tests a == b and *)
(* a.reduce() == b.reduce().                                               *)
(***************************************************************************)
\* largest numerator and denominator of the two values
EqMax == 4

\* equality of the values the fractions stand for
FractionEqNormalizing(a, b) ==
    /\ a.is_negative = b.is_negative
    /\ a.num * b.deno = b.num * a.deno

\* derive(PartialEq, Eq) on Fraction: every field equal
FractionEq(a, b) ==
    /\ a.is_negative = b.is_negative
    /\ a.num = b.num
    /\ a.deno = b.deno

EqualityInit ==
    /\ op = "start"
    /\ arg \in {[pair |-> <<a, b>>] : a \in FractionsUpTo(EqMax), b \in FractionsUpTo(EqMax)}
    /\ res = [ord |-> NoRes, ra |-> NoRes, rb |-> NoRes, eq |-> NoRes, req |-> NoRes]
    /\ cm = Empty

\* a.cmp(&b)
EqualityCmp ==
    /\ op = "start"
    /\ \E r \in FractionCmp(arg.pair[1], arg.pair[2]) : res' = [res EXCEPT !.ord = r]
    /\ op' = "Fraction::cmp"
    /\ UNCHANGED <<arg, cm>>

\* a.reduce(), then b.reduce()
EqualityReduce ==
    /\ \/ op = "Fraction::cmp" /\ IsOk(res.ord)
       \/ op = "Fraction::reduce" /\ IsOk(res.ra) /\ res.rb = NoRes
    /\ res' = IF res.ra = NoRes
              THEN [res EXCEPT !.ra = FractionReduce(arg.pair[1])]
              ELSE [res EXCEPT !.rb = FractionReduce(arg.pair[2])]
    /\ op' = "Fraction::reduce"
    /\ UNCHANGED <<arg, cm>>

\* a == b, then a.reduce() == b.reduce()
EqualityEq ==
    /\ \/ op = "Fraction::reduce" /\ IsOk(res.rb)
       \/ op = "Fraction::eq" /\ res.req = NoRes
    /\ res' = IF res.eq = NoRes
              THEN [res EXCEPT !.eq = Ok(FractionEq(arg.pair[1], arg.pair[2]))]
              ELSE [res EXCEPT !.req = Ok(FractionEq(res.ra.val, res.rb.val))]
    /\ op' = "Fraction::eq"
    /\ UNCHANGED <<arg, cm>>

EqualityNext ==
    \/ EqualityCmp
    \/ EqualityReduce
    \/ EqualityEq

SpecEquality == EqualityInit /\ [][EqualityNext]_vars

\* C17: a == b holds only for identical sign flag, numerator and denominator;
\* when the cross products fit, cmp(a, b) is Equal exactly when
\* reduce(a) == reduce(b), so a == b gives Equal.
C17_EqualityVersusOrder ==
    (op = "Fraction::eq" /\ res.req # NoRes) =>
        LET a == arg.pair[1]
            b == arg.pair[2]
        IN  /\ res.eq.val <=> a = b
            /\ Fits(a, b) => /\ res.ord = Ok("Equal") <=> res.req = Ok(TRUE)
                             /\ res.eq = Ok(TRUE) => res.ord = Ok("Equal")

\* 2/4 and 1/2: not equal, Equal in the order, equal once reduced
C17_Witness ==
    /\ op = "Fraction::eq"
    /\ arg.pair = <<Fraction(FALSE, 2, 4), Fraction(FALSE, 1, 2)>>
    /\ res.eq = Ok(FALSE)
    /\ res.ord = Ok("Equal")
    /\ res.req = Ok(TRUE)

====
